---- MODULE Spec2Model ----
(***************************************************************************)
(* A model of the circuit simulator of src/everything.cpp: the primitive   *)
(* gates, the gate arena (GateKeeper) with its two-phase tick, and the     *)
(* prototype -> circuit protocol (addPrototype / finalize / instantiate /  *)
(* link / getOutput).                                                      *)
(*                                                                         *)
(* A gate handle is the index of the gate in the arena; 0 is a null (or   *)
(* never written) pointer.  A circuit handle is the index of the circuit  *)
(* object in `circuits`; a prototype is                                   *)
(* the index of the prototype in `protos`.  A failed assert aborts the     *)
(* process: `err` keeps the reason and the other variables keep the state  *)
(* at the moment of the failure.                                           *)
(***************************************************************************)
EXTENDS Integers, Sequences, FiniteSets, TLC

(***************************************************************************)
(* Bounds of the model.                                                    *)
(***************************************************************************)
\* tick() calls made on a circuit a client assembled itself
MaxTicks == 3
\* tick() calls made on a circuit of main()
MaxMainTicks == 9
\* placements a client adds to the composite it assembles
MaxCommands == 2
\* arenas up to this size are ticked in every order of their gates
MaxPermGates == 3

\* net names a client uses in the composite it assembles
Names == {"x", "y"}

VARIABLES
    protos,     \* the IPrototype objects
    gates,      \* GateKeeper::gates
    circuits,   \* the ICircuit objects
    top,        \* the circuit the client holds (0: none yet)
    err,        \* "none", or why the process aborted
    ticks,      \* tick() calls made on the gates of the arena
    out,        \* what the probes wrote to std::cout
    linkedOnce  \* the circuits on which a link call has returned

vars == <<protos, gates, circuits, top, err, ticks, out, linkedOnce>>

Ok(st) == st.err = "none"

(***************************************************************************)
(* Primitive gates.                                                        *)
(***************************************************************************)
\* Gate<N>::InputSize of each gate type
InputSize(type) ==
    CASE type = "low" -> 0
      [] type = "register" -> 1
      [] type = "nand" -> 2
      [] type = "tick - outputonly" -> 1

\* make_unique<T>(): the input slots are not wired, a register holds false
NewGate(type, name) ==
    [type |-> type, inputs |-> [i \in 1..InputSize(type) |-> 0],
     value |-> FALSE, nextValue |-> FALSE, t |-> 0, name |-> name]

Val(b) == [err |-> "none", v |-> b]
Fail(why) == [err |-> why, v |-> FALSE]

\* LowOutput::getValue
LowOutputGetValue == Val(FALSE)

RegisterGetValueStaged(G) == Val(G.nextValue)
\* a register that reads through its input instead of returning the committed
\* value: in a feedback loop the call never returns
RegisterGetValueRecursing(G) == Fail("stack_overflow")
\* Register::getValue
RegisterGetValue(G) == Val(G.value)

NandAnd(a, b) == a /\ b
NandNor(a, b) == ~(a \/ b)
\* Nand::getValue, once both inputs are read
NandOf(a, b) == ~(a /\ b)

\* IGate::getValue through a handle.  `path` holds the gates whose getValue is
\* on the call stack: a gate met again recurses for ever (the stack overflows).
RECURSIVE getValue(_, _, _)
getValue(g, gs, path) ==
    IF g = 0 THEN Fail("undefined:null_deref")
    ELSE IF g \in path THEN Fail("stack_overflow")
    ELSE LET G == gs[g] IN
      CASE G.type = "low" -> LowOutputGetValue
        [] G.type = "register" -> RegisterGetValue(G)
        [] G.type = "tick - outputonly" -> Fail("assert:TickOutputOnly::getValue")
        [] G.type = "nand" ->
             LET a == getValue(G.inputs[1], gs, path \cup {g}) IN
             IF ~Ok(a) THEN a
             ELSE IF ~a.v THEN Val(NandOf(FALSE, FALSE))
             ELSE LET b == getValue(G.inputs[2], gs, path \cup {g}) IN
                  IF ~Ok(b) THEN b ELSE Val(NandOf(a.v, b.v))

(***************************************************************************)
(* The arena and its scheduler.  A run of tick is a record                 *)
(* [gates, out, err, at]: the arena, std::cout, the failure that stopped   *)
(* it and the gate whose tick1 failed.                                     *)
(***************************************************************************)
RegisterTick1Direct(G, v) == [G EXCEPT !.value = v, !.nextValue = v]
\* Register::tick1, given the value read from input 0
RegisterTick1(G, v) == [G EXCEPT !.nextValue = v]

RegisterTick2Keep(G) == G
\* Register::tick2
RegisterTick2(G) == [G EXCEPT !.value = G.nextValue]

\* the line of a probe that writes its counter before it increments it
ReportPostIncrement(G, v) == [name |-> G.name, t |-> G.t - 1, v |-> IF v THEN "H" ELSE "L"]
\* the line TickOutputOnly::tick1 writes
Report(G, v) == [name |-> G.name, t |-> G.t, v |-> IF v THEN "H" ELSE "L"]

\* IGate::tick1 of gate g.  The probe increments t before it reads its input.
tick1(g, st) ==
    LET G == st.gates[g] IN
    CASE G.type = "register" ->
           LET r == getValue(G.inputs[1], st.gates, {}) IN
           IF Ok(r) THEN [st EXCEPT !.gates[g] = RegisterTick1(G, r.v)]
           ELSE [st EXCEPT !.err = r.err, !.at = g]
      [] G.type = "tick - outputonly" ->
           LET G1 == [G EXCEPT !.t = G.t + 1]
               r == getValue(G.inputs[1], st.gates, {}) IN
           IF Ok(r) THEN [st EXCEPT !.gates[g] = G1, !.out = Append(st.out, Report(G1, r.v))]
           ELSE [st EXCEPT !.gates[g] = G1, !.err = r.err, !.at = g]
      [] OTHER -> st

\* IGate::tick2 of gate g
tick2(g, st) ==
    LET G == st.gates[g] IN
    IF G.type = "register" THEN [st EXCEPT !.gates[g] = RegisterTick2(G)] ELSE st

\* tick1 and tick2 of each gate in turn: a scheduler with one pass
RECURSIVE OnePass(_, _, _)
OnePass(order, k, st) ==
    IF k > Len(order) \/ ~Ok(st) THEN st
    ELSE OnePass(order, k + 1, tick2(order[k], tick1(order[k], st)))

\* the first loop of GateKeeper::tick, over the gates in `order`, from its k-th
RECURSIVE Phase1(_, _, _)
Phase1(order, k, st) ==
    IF k > Len(order) \/ ~Ok(st) THEN st
    ELSE Phase1(order, k + 1, tick1(order[k], st))

\* the second loop of GateKeeper::tick
RECURSIVE Phase2(_, _, _)
Phase2(order, k, st) ==
    IF k > Len(order) \/ ~Ok(st) THEN st
    ELSE Phase2(order, k + 1, tick2(order[k], st))

\* the order of GateKeeper::gates
ArenaOrder(gs) == [i \in 1..Len(gs) |-> i]

\* GateKeeper::tick with the gates visited in order1, then in order2
tickIn(order1, order2, gs, o) ==
    Phase2(order2, 1, Phase1(order1, 1, [gates |-> gs, out |-> o, err |-> "none", at |-> 0]))

tickOnePass(gs, o) ==
    OnePass(ArenaOrder(gs), 1, [gates |-> gs, out |-> o, err |-> "none", at |-> 0])
\* GateKeeper::tick
tick(gs, o) == tickIn(ArenaOrder(gs), ArenaOrder(gs), gs, o)

(***************************************************************************)
(* Prototypes.                                                             *)
(***************************************************************************)
\* GatePrototype<T> (one output) and OutputPrototype (no output, a label)
GatePrototype(type) ==
    [kind |-> "gate", gate |-> type, label |-> "", numInputs |-> InputSize(type),
     numOutputs |-> 1, commands |-> <<>>, state |-> "Finalized",
     outer_input_ids |-> <<>>, outer_output_ids |-> <<>>, type_name |-> type,
     num_nodes |-> -1]

\* a probe prototype that declares its gate as an output
OutputPrototypeOneOutput(name) == [GatePrototype("tick - outputonly") EXCEPT !.label = name]

OutputPrototype(name) ==
    [GatePrototype("tick - outputonly") EXCEPT !.label = name, !.numOutputs = 0]

\* CompositePrototype::CompositePrototype
CompositePrototype(name, outer_input_ids, outer_output_ids) ==
    [kind |-> "composite", gate |-> "", label |-> "",
     numInputs |-> Len(outer_input_ids), numOutputs |-> Len(outer_output_ids),
     commands |-> <<>>, state |-> "Init",
     outer_input_ids |-> outer_input_ids, outer_output_ids |-> outer_output_ids,
     type_name |-> name, num_nodes |-> Len(outer_input_ids)]

\* CompositePrototype::ChildData
ChildData(proto, inputs, outputs, child_id) ==
    [proto |-> proto, inputs |-> inputs, outputs |-> outputs, child_id |-> child_id]

addPrototypeAnyState(ps, self, cmd, input_ids, output_ids, childName) ==
    [protos |-> [ps EXCEPT ![self].num_nodes = @ + Len(output_ids),
                           ![self].commands =
                               Append(@, [proto |-> cmd, inputs |-> input_ids,
                                          outputs |-> output_ids, child_id |-> childName])],
     err |-> "none"]
\* CompositePrototype::addPrototype on prototype `self` of the table ps
addPrototype(ps, self, cmd, input_ids, output_ids, childName) ==
    IF ps[cmd].kind = "composite" /\ ps[cmd].state # "Finalized"
      THEN [protos |-> ps, err |-> "assert:child_not_finalized"]
    ELSE IF ps[cmd].numInputs # Len(input_ids)
      THEN [protos |-> ps, err |-> "assert:input_ids_size"]
    ELSE IF ps[cmd].numOutputs # Len(output_ids)
      THEN [protos |-> ps, err |-> "assert:output_ids_size"]
    ELSE IF ps[self].state # "Init"
      THEN [protos |-> ps, err |-> "assert:addPrototype_state"]
    ELSE [protos |-> [ps EXCEPT ![self].num_nodes = @ + Len(output_ids),
                                ![self].commands =
                                    Append(@, ChildData(cmd, input_ids, output_ids, childName))],
          err |-> "none"]

\* CompositePrototype::finalize
finalize(ps, self) ==
    IF ps[self].state # "Init" THEN [protos |-> ps, err |-> "assert:finalize_state"]
    ELSE [protos |-> [ps EXCEPT ![self].state = "Finalized"], err |-> "none"]

(***************************************************************************)
(* The prototypes main() builds, by the calls main() makes.                *)
(***************************************************************************)
lowPrototype == 1
nandPrototype == 2
registerPrototype == 3
clk1 == 4
clk2 == 5
clk4 == 6
notPrototype == 7
andPrototype == 8
orPrototype == 9
xorPrototype == 10
clkPrototype == 11
downDetectorPrototype == 12
halverPrototype == 13
adderPrototype == 14
testProto == 15

\* the addPrototype calls of one prototype of main(), then its finalize
RECURSIVE AddAll(_, _, _, _)
AddAll(ps, self, cmds, k) ==
    IF k > Len(cmds) THEN finalize(ps, self).protos
    ELSE AddAll(addPrototype(ps, self, cmds[k].proto, cmds[k].inputs,
                             cmds[k].outputs, cmds[k].child_id).protos,
                self, cmds, k + 1)

Define(ps, name, ins, outs, cmds) ==
    AddAll(Append(ps, CompositePrototype(name, ins, outs)), Len(ps) + 1, cmds, 1)

Library ==
    LET p6 == <<GatePrototype("low"), GatePrototype("nand"), GatePrototype("register"),
                OutputPrototype("clk/1"), OutputPrototype("clk/2"), OutputPrototype("clk/4")>>
        p7 == Define(p6, "not", <<"in">>, <<"not">>,
                <<ChildData(nandPrototype, <<"in", "in">>, <<"not">>, "")>>)
        p8 == Define(p7, "and", <<"in1", "in2">>, <<"and">>,
                <<ChildData(nandPrototype, <<"in1", "in2">>, <<"nand">>, ""),
                  ChildData(notPrototype, <<"nand">>, <<"and">>, "")>>)
        p9 == Define(p8, "or", <<"in1", "in2">>, <<"or">>,
                <<ChildData(notPrototype, <<"in1">>, <<"nin1">>, ""),
                  ChildData(notPrototype, <<"in2">>, <<"nin2">>, ""),
                  ChildData(nandPrototype, <<"nin1", "nin2">>, <<"or">>, "")>>)
        p10 == Define(p9, "xor", <<"in1", "in2">>, <<"xor">>,
                <<ChildData(orPrototype, <<"in1", "in2">>, <<"or">>, ""),
                  ChildData(nandPrototype, <<"in1", "in2">>, <<"nand">>, ""),
                  ChildData(andPrototype, <<"or", "nand">>, <<"xor">>, "")>>)
        p11 == Define(p10, "clock", <<>>, <<"out">>,
                <<ChildData(registerPrototype, <<"in">>, <<"out">>, ""),
                  ChildData(notPrototype, <<"out">>, <<"in">>, "")>>)
        p12 == Define(p11, "falling edge detector", <<"clk">>, <<"down">>,
                <<ChildData(registerPrototype, <<"clk">>, <<"old clk">>, ""),
                  ChildData(notPrototype, <<"clk">>, <<"not clk">>, ""),
                  ChildData(andPrototype, <<"old clk", "not clk">>, <<"down">>, "")>>)
        p13 == Define(p12, "clock halver", <<"clk">>, <<"new current">>,
                <<ChildData(downDetectorPrototype, <<"clk">>, <<"down">>, "down detector"),
                  ChildData(registerPrototype, <<"new current">>, <<"current">>, ""),
                  ChildData(xorPrototype, <<"current", "down">>, <<"new current">>,
                            "change on down")>>)
        p14 == Define(p13, "3-bit adder", <<"1", "2", "3">>, <<"value", "carry">>,
                <<ChildData(xorPrototype, <<"1", "2">>, <<"1x2">>, ""),
                  ChildData(xorPrototype, <<"1x2", "3">>, <<"value">>, ""),
                  ChildData(andPrototype, <<"1", "2">>, <<"12">>, ""),
                  ChildData(andPrototype, <<"1", "3">>, <<"13">>, ""),
                  ChildData(andPrototype, <<"3", "2">>, <<"32">>, ""),
                  ChildData(orPrototype, <<"12", "13">>, <<"12+13">>, ""),
                  ChildData(orPrototype, <<"12+13", "32">>, <<"carry">>, "")>>)
        p15 == Define(p14, "test", <<>>, <<>>,
                <<ChildData(clkPrototype, <<>>, <<"clk">>, ""),
                  ChildData(halverPrototype, <<"clk">>, <<"clk/2">>, ""),
                  ChildData(clk1, <<"clk">>, <<>>, ""),
                  ChildData(halverPrototype, <<"clk/2">>, <<"clk/4">>, ""),
                  ChildData(clk2, <<"clk/2">>, <<>>, ""),
                  ChildData(clk4, <<"clk/4">>, <<>>, "")>>)
    IN p15

(***************************************************************************)
(* Circuits.  A run of instantiate or link is a record                     *)
(* [gates, circuits, err, ret]: the arena, the circuit objects, the failed *)
(* assert if any, and the circuit returned.  The diagnostic names of       *)
(* LongNameBuilder are left out: only GateKeeper::print reads them.        *)
(***************************************************************************)
\* std::unordered_map::find(name) != end()
Bound(everything, name) == name \in DOMAIN everything

InsertNothing(everything, name, g) == everything
\* std::unordered_map::insert: a name already bound keeps its binding
Insert(everything, name, g) ==
    IF Bound(everything, name) THEN everything ELSE everything @@ (name :> g)

\* std::unordered_map::operator[]: an unbound name is bound to a null pointer
Subscript(everything, name) ==
    IF Bound(everything, name) THEN [everything |-> everything, g |-> everything[name]]
    ELSE [everything |-> everything @@ (name :> 0), g |-> 0]

\* a circuit on a gate of the same type the arena holds already, if there is one
GateCircuitShared(ps, p, st) ==
    LET same == {g \in DOMAIN st.gates : st.gates[g].type = ps[p].gate} IN
    [st EXCEPT !.gates = IF same = {} THEN Append(@, NewGate(ps[p].gate, ps[p].label)) ELSE @,
               !.circuits = Append(@, [kind |-> "gate",
                                       c |-> IF same = {} THEN Len(st.gates) + 1
                                             ELSE CHOOSE g \in same : TRUE,
                                       state |-> "-", everything |-> <<>>,
                                       circuits |-> <<>>, parent |-> p]),
               !.ret = Len(st.circuits) + 1]
\* GateCircuit<T>::GateCircuit: one gate of the arena, and its circuit
GateCircuit(ps, p, st) ==
    [st EXCEPT !.gates = Append(@, NewGate(ps[p].gate, ps[p].label)),
               !.circuits = Append(@, [kind |-> "gate", c |-> Len(st.gates) + 1,
                                       state |-> "-", everything |-> <<>>,
                                       circuits |-> <<>>, parent |-> p]),
               !.ret = Len(st.circuits) + 1]

getOutputLenient(ps, cs, cid, i) ==
    LET C == cs[cid] IN
    IF C.kind = "gate" THEN [err |-> "none", g |-> C.c]
    ELSE IF ~(i >= 0 /\ i < ps[C.parent].numOutputs) THEN [err |-> "none", g |-> 0]
    ELSE IF ~Bound(C.everything, ps[C.parent].outer_output_ids[i + 1])
      THEN [err |-> "none", g |-> 0]
    ELSE [err |-> "none", g |-> C.everything[ps[C.parent].outer_output_ids[i + 1]]]
\* ICircuit::getOutput(i), i counted from 0
getOutput(ps, cs, cid, i) ==
    LET C == cs[cid] IN
    IF C.kind = "gate"
      THEN IF i # 0 THEN [err |-> "assert:getOutput_index", g |-> 0]
           ELSE [err |-> "none", g |-> C.c]
    ELSE IF ~(i >= 0 /\ i < ps[C.parent].numOutputs)
      THEN [err |-> "assert:getOutput_index", g |-> 0]
    ELSE IF ~Bound(C.everything, ps[C.parent].outer_output_ids[i + 1])
      THEN [err |-> "assert:getOutput_unbound", g |-> 0]
    ELSE [err |-> "none", g |-> C.everything[ps[C.parent].outer_output_ids[i + 1]]]

NeverDeclared(everything, name) == FALSE
\* the assert of line 243 fails
AlreadyDeclared(everything, name) == Bound(everything, name)

\* the loop of lines 242-245 from output i (counted from 0) of the child cid
RECURSIVE BindOutputs(_, _, _, _, _, _)
BindOutputs(ps, cmd, cid, cs, everything, i) ==
    IF i >= ps[cmd.proto].numOutputs THEN [everything |-> everything, err |-> "none"]
    ELSE IF AlreadyDeclared(everything, cmd.outputs[i + 1])
      THEN [everything |-> everything, err |-> "assert:duplicate_output"]
    ELSE LET o == getOutput(ps, cs, cid, i) IN
         IF ~Ok(o) THEN [everything |-> everything, err |-> o.err]
         ELSE BindOutputs(ps, cmd, cid, cs, Insert(everything, cmd.outputs[i + 1], o.g), i + 1)

\* IPrototype::instantiate of prototype p, and CompositePrototype::Circuit::Circuit
\* from its k-th placement, with the symbol table and the children so far
RECURSIVE instantiate(_, _, _)
RECURSIVE Circuit(_, _, _, _, _, _)
Circuit(ps, p, k, st, everything, kids) ==
    IF k > Len(ps[p].commands)
      THEN [st EXCEPT !.circuits = Append(@, [kind |-> "composite", c |-> 0,
                                              state |-> "Init", everything |-> everything,
                                              circuits |-> kids, parent |-> p]),
                      !.ret = Len(st.circuits) + 1]
    ELSE LET cmd == ps[p].commands[k]
             a == instantiate(ps, cmd.proto, st) IN
         IF ~Ok(a) THEN a
         ELSE LET b == BindOutputs(ps, cmd, a.ret, a.circuits, everything, 0) IN
              IF ~Ok(b) THEN [a EXCEPT !.err = b.err]
              ELSE Circuit(ps, p, k + 1, a, b.everything, Append(kids, a.ret))

instantiate(ps, p, st) ==
    IF ps[p].kind = "gate" THEN GateCircuit(ps, p, st)
    ELSE Circuit(ps, p, 1, st, <<>>, <<>>)

ArityAny(given, declared) == TRUE
\* the asserts of lines 163 and 259 hold
ArityOk(given, declared) == given = declared

\* the loop of lines 260-262 from its k-th argument
RECURSIVE InsertInputs(_, _, _, _)
InsertInputs(everything, ids, args, k) ==
    IF k > Len(args) \/ k > Len(ids) THEN everything
    ELSE InsertInputs(Insert(everything, ids[k], args[k]), ids, args, k + 1)

ResolveLast(everything, inputs, j, data) ==
    [everything |-> everything,
     data |-> [i \in 1..Len(inputs) |-> IF Bound(everything, inputs[Len(inputs)])
                                          THEN everything[inputs[Len(inputs)]] ELSE 0]]
\* the loop of lines 267-269 from its j-th name
RECURSIVE Resolve(_, _, _, _)
Resolve(everything, inputs, j, data) ==
    IF j > Len(inputs) THEN [everything |-> everything, data |-> data]
    ELSE LET r == Subscript(everything, inputs[j]) IN
         Resolve(r.everything, inputs, j + 1, Append(data, r.g))

\* GateCircuit<T>::link
GateLink(c, args, st) ==
    LET n == Len(st.gates[c].inputs) IN
    IF ~ArityOk(Len(args), n) THEN [st EXCEPT !.err = "assert:args_size"]
    ELSE [st EXCEPT !.gates[c].inputs = [i \in 1..n |-> IF i <= Len(args) THEN args[i] ELSE @[i]],
                    !.err = IF Len(args) > n THEN "out_of_range" ELSE "none"]

\* ICircuit::link, and the loop of lines 263-271 from its k-th placement
RECURSIVE link(_, _, _, _)
RECURSIVE LinkChildren(_, _, _, _)
LinkChildren(ps, cid, k, st) ==
    LET C == st.circuits[cid] IN
    IF k > Len(C.circuits) THEN st
    ELSE LET r == Resolve(C.everything, ps[C.parent].commands[k].inputs, 1, <<>>)
             a == link(ps, C.circuits[k], r.data,
                       [st EXCEPT !.circuits[cid].everything = r.everything]) IN
         IF ~Ok(a) THEN a ELSE LinkChildren(ps, cid, k + 1, a)

link(ps, cid, args, st) ==
    LET C == st.circuits[cid] IN
    IF C.kind = "gate" THEN GateLink(C.c, args, st)
    ELSE IF C.state # "Init" THEN [st EXCEPT !.err = "assert:link_state"]
    ELSE IF ~ArityOk(Len(args), ps[C.parent].numInputs)
      THEN [st EXCEPT !.circuits[cid].state = "Linked", !.err = "assert:args_size"]
    ELSE LinkChildren(ps, cid, 1,
           [st EXCEPT !.circuits[cid].state = "Linked",
                      !.circuits[cid].everything =
                          InsertInputs(@, ps[C.parent].outer_input_ids, args, 1)])

(***************************************************************************)
(* The client: what a program such as main() does with the API.  As main() *)
(* does, it defines and finalizes its prototypes first, then instantiates  *)
(* one of them into the arena, links the circuit and ticks the arena.  It  *)
(* assembles at most one composite of its own, from prototypes of main(),  *)
(* and then instantiates that one.  A call made after the process aborted  *)
(* does not happen.                                                        *)
(***************************************************************************)
\* handle lists of this length are passed to link by the client
MaxArgs == 2

\* the sequences over S of length at most n
SeqsUpTo(S, n) == UNION {[1..k -> S] : k \in 0..n}

\* the prototypes the client places in its composite
UserChildren == {nandPrototype, registerPrototype, clk1, clkPrototype, adderPrototype}

\* the net names the client gives the inputs and the outputs of a placement
InputIds == {<<>>, <<"x">>, <<"y">>, <<"x", "y">>, <<"y", "y">>, <<"x", "x", "y">>}
OutputIds == {<<>>, <<"x">>, <<"y">>, <<"x", "x">>, <<"x", "y">>}

\* the port names the client declares for its composite
UserInputs == {<<>>, <<"x">>}
UserOutputs == {<<"y">>}

User == Len(Library) + 1

Init ==
    /\ protos = Library
    /\ gates = <<>>
    /\ circuits = <<>>
    /\ top = 0
    /\ err = "none"
    /\ ticks = 0
    /\ out = <<>>
    /\ linkedOnce = {}

\* CompositePrototype user("user", ins, outs)
NewComposite(ins, outs) ==
    /\ err = "none" /\ top = 0
    /\ Len(protos) = Len(Library)
    /\ protos' = Append(protos, CompositePrototype("user", ins, outs))
    /\ UNCHANGED <<gates, circuits, top, err, ticks, out, linkedOnce>>

\* the prototypes of main() the client has placed in its composite
Embedded ==
    IF Len(protos) < User THEN {}
    ELSE {protos[User].commands[k].proto : k \in DOMAIN protos[User].commands}

\* the composite prototypes the client calls addPrototype and finalize on: its
\* own, and the ones it has placed in its own
CompositeIds == IF Len(protos) < User THEN {} ELSE {User} \cup Embedded

\* self.addPrototype(cmd, input_ids, output_ids), on the composite of the client
\* or on a prototype of main()
AddPrototype(self, cmd, input_ids, output_ids) ==
    /\ err = "none" /\ top = 0
    /\ self \in CompositeIds /\ protos[self].kind = "composite"
    /\ self = User => Len(protos[User].commands) < MaxCommands
    /\ LET r == addPrototype(protos, self, cmd, input_ids, output_ids, "") IN
         /\ err' = r.err
         /\ protos' = r.protos
    /\ UNCHANGED <<gates, circuits, top, ticks, out, linkedOnce>>

\* self.finalize()
Finalize(self) ==
    /\ err = "none" /\ top = 0
    /\ self \in CompositeIds /\ protos[self].kind = "composite"
    /\ LET r == finalize(protos, self) IN
         /\ err' = r.err
         /\ protos' = r.protos
    /\ UNCHANGED <<gates, circuits, top, ticks, out, linkedOnce>>

\* top = p.instantiate(&heimdall)
Instantiate(p) ==
    /\ err = "none" /\ top = 0
    /\ protos[p].state = "Finalized"
    /\ p = Len(protos) \/ Len(protos) = Len(Library)
    /\ LET r == instantiate(protos, p,
                   [gates |-> gates, circuits |-> circuits, err |-> "none", ret |-> 0]) IN
         /\ gates' = r.gates
         /\ circuits' = r.circuits
         /\ err' = r.err
         /\ top' = IF Ok(r) THEN r.ret ELSE 0
    /\ UNCHANGED <<protos, ticks, out, linkedOnce>>

\* the handles the client can pass to link: null, and the outputs of its circuit
Handles ==
    IF top = 0 THEN {0}
    ELSE {0} \cup {getOutput(protos, circuits, top, i).g :
                     i \in {j \in 0..protos[circuits[top].parent].numOutputs :
                               Ok(getOutput(protos, circuits, top, j))}}

\* top->link(args)
Link(args) ==
    /\ err = "none" /\ top # 0
    /\ LET r == link(protos, top, args,
                   [gates |-> gates, circuits |-> circuits, err |-> "none", ret |-> 0]) IN
         /\ gates' = r.gates
         /\ circuits' = r.circuits
         /\ err' = r.err
         /\ linkedOnce' = IF Ok(r) THEN linkedOnce \cup {top} ELSE linkedOnce
    /\ UNCHANGED <<protos, top, ticks, out>>

\* what the arena may hold once gate g read a value through a null handle: the
\* behaviour is undefined, and the value g was about to stage is arbitrary
Havoc(gs, g) == {[gs EXCEPT ![g].nextValue = b] : b \in BOOLEAN}

\* tick() calls the client makes on its circuit
TickBound ==
    IF top # 0 /\ circuits[top].parent <= Len(Library) THEN MaxMainTicks ELSE MaxTicks

\* heimdall.tick().  On an empty arena the call visits no gate and changes nothing.
Tick ==
    /\ err = "none" /\ Len(gates) > 0
    /\ ticks < TickBound
    /\ LET r == tick(gates, out) IN
         /\ err' = r.err
         /\ out' = r.out
         /\ IF r.err = "undefined:null_deref"
              THEN gates' \in Havoc(r.gates, r.at)
              ELSE gates' = r.gates
    /\ ticks' = ticks + 1
    /\ UNCHANGED <<protos, circuits, top, linkedOnce>>

Next ==
    \/ \E ins \in UserInputs, outs \in UserOutputs : NewComposite(ins, outs)
    \/ \E cmd \in UserChildren \cup {User},
          input_ids \in InputIds, output_ids \in OutputIds :
            AddPrototype(User, cmd, input_ids, output_ids)
    \/ \E self \in Embedded : AddPrototype(self, nandPrototype, <<"x", "y">>, <<"y">>)
    \/ \E self \in CompositeIds : Finalize(self)
    \/ \E p \in DOMAIN protos : Instantiate(p)
    \/ \E args \in SeqsUpTo(Handles, MaxArgs) : Link(args)
    \/ Tick

Spec == Init /\ [][Next]_vars

(***************************************************************************)
(* Definitions the properties share.                                       *)
(***************************************************************************)
\* the registers of an arena
Registers(gs) == {g \in DOMAIN gs : gs[g].type = "register"}

\* the value read through handle g between two ticks
Read(g) == getValue(g, gates, {})

\* the circuit the client holds is an instance of prototype p, its link has
\* returned and nothing has failed
Running(p) ==
    /\ err = "none" /\ top # 0
    /\ circuits[top].parent = p
    /\ top \in linkedOnce

\* the composite circuits
Composites == {cid \in DOMAIN circuits : circuits[cid].kind = "composite"}

\* the placement that built the k-th child of circuit cid
Placement(cid, k) == protos[circuits[cid].parent].commands[k]

\* the gate the i-th output of the m-th child of circuit cid stands for
ChildOutput(cid, m, i) == getOutput(protos, circuits, circuits[cid].circuits[m], i - 1).g

\* a placement of prototype p declares the output net `name`
Declares(p, name) ==
    \E k \in DOMAIN protos[p].commands :
       \E i \in DOMAIN protos[p].commands[k].outputs :
          protos[p].commands[k].outputs[i] = name

\* the j-th input of the k-th child of circuit cid is wired to gate g: the input
\* slot of a primitive child holds g, the table of a composite child binds its
\* j-th port name to g (unless the child declares a net of that name itself)
Wired(cid, k, j, g) ==
    LET kid == circuits[circuits[cid].circuits[k]] IN
    IF kid.kind = "gate" THEN gates[kid.c].inputs[j] = g
    ELSE LET n == protos[kid.parent].outer_input_ids[j] IN
         \/ Declares(kid.parent, n)
         \/ Bound(kid.everything, n) /\ kid.everything[n] = g

(***************************************************************************)
(* C1.  After a tick that completes, every register holds the value its    *)
(* input gate had immediately before the tick: no sample of phase 1 sees a *)
(* commit of phase 2 of the same tick, and getValue never returns the      *)
(* staged value.                                                           *)
(***************************************************************************)
C1_TwoPhase ==
    [][(ticks' = ticks + 1 /\ err' = "none") =>
         \A g \in Registers(gates) :
            /\ Ok(Read(gates[g].inputs[1]))
            /\ gates'[g].value = Read(gates[g].inputs[1]).v]_vars

\* a register fed by another register whose value it does not hold yet
C1_Witness ==
    /\ err = "none" /\ ticks >= 2
    /\ \E r1, r2 \in Registers(gates) :
          r1 # r2 /\ gates[r2].inputs[1] = r1 /\ gates[r1].value # gates[r2].value

(***************************************************************************)
(* C2.  A register whose input is a combinational function f of its own    *)
(* output alone holds, after n ticks, f applied n times to false.          *)
(***************************************************************************)
\* what the value read through g depends on: registers, 0 for a null handle,
\* -1 for a combinational cycle, -2 for a probe
RECURSIVE Leaves(_, _, _)
Leaves(g, gs, path) ==
    IF g = 0 THEN {0}
    ELSE IF g \in path THEN {-1}
    ELSE CASE gs[g].type = "register" -> {g}
           [] gs[g].type = "low" -> {}
           [] gs[g].type = "tick - outputonly" -> {-2}
           [] gs[g].type = "nand" ->
                Leaves(gs[g].inputs[1], gs, path \cup {g})
                  \cup Leaves(gs[g].inputs[2], gs, path \cup {g})

\* the input of register r as a function of the value v of r
Feedback(r, v) == getValue(gates[r].inputs[1], [gates EXCEPT ![r].value = v], {}).v

RECURSIVE Iterate(_, _, _)
Iterate(r, n, v) == IF n = 0 THEN v ELSE Iterate(r, n - 1, Feedback(r, v))

C2_FeedbackIterates ==
    err = "none" =>
      \A r \in Registers(gates) :
         Leaves(gates[r].inputs[1], gates, {}) \subseteq {r} =>
            gates[r].value = Iterate(r, ticks, FALSE)

\* a register fed by the negation of itself, three ticks on
C2_Witness ==
    /\ err = "none" /\ ticks = 3
    /\ \E r \in Registers(gates) :
          /\ Leaves(gates[r].inputs[1], gates, {}) = {r}
          /\ Feedback(r, FALSE) /\ ~Feedback(r, TRUE)
          /\ gates[r].value

(***************************************************************************)
(* C3.  The clock alone, read through its output after each of 4 ticks.    *)
(***************************************************************************)
ClockOutput == Read(getOutput(protos, circuits, top, 0).g).v

\* C3 as the spec states it: false, true, false, true after ticks 1, 2, 3, 4
C3_AsStated ==
    Running(clkPrototype) /\ ticks \in 1..4 => ClockOutput = (ticks % 2 = 0)

\* C3, amended: the clock alone reads false before the first tick and true,
\* false, true, false after ticks 1, 2, 3 and 4
C3_Clock ==
    Running(clkPrototype) /\ ticks \in 0..4 => ClockOutput = (ticks % 2 = 1)

C3_Witness == Running(clkPrototype) /\ ticks = 4 /\ ~ClockOutput

(***************************************************************************)
(* C4.  The circuit of main(): a clock, a halver fed by the clock, a       *)
(* second halver fed by the first, and a probe on each of the three nets.  *)
(* The probe of a net writes, at tick k + 1, the value the net had after k *)
(* ticks.                                                                  *)
(***************************************************************************)
\* the probe labelled `name`
Probe(name) ==
    CHOOSE g \in DOMAIN gates : gates[g].type = "tick - outputonly" /\ gates[g].name = name

\* the value of the net probed under `name` after k of the ticks made so far
After(name, k) ==
    IF k < ticks
      THEN \E n \in DOMAIN out : out[n] = [name |-> name, t |-> k + 1, v |-> "H"]
      ELSE Read(gates[Probe(name)].inputs[1]).v

\* the ticks, of the first n, at which the net probed under `name` changed
Changes(name, n) == {k \in 1..n : After(name, k) # After(name, k - 1)}

\* the ticks, of the first n, at which the net probed under `name` fell
Falls(name, n) == {k \in 1..n : After(name, k - 1) /\ ~After(name, k)}

\* C4 as the spec states it: one change of the halver's output in 8 ticks
C4_AsStated ==
    Running(testProto) /\ ticks = 8 => Cardinality(Changes("clk/2", 8)) = 1

\* C4, amended: the output of the halver fed by the clock changes at the ticks
\* at which the clock falls and at no other, which makes four changes in 8
\* ticks (at ticks 2, 4, 6 and 8)
C4_Halver ==
    Running(testProto) =>
      /\ Changes("clk/2", ticks) = Falls("clk/1", ticks)
      /\ ticks >= 8 => Changes("clk/2", 8) = {2, 4, 6, 8}

C4_Witness ==
    Running(testProto) /\ ticks = 8 /\ Cardinality(Changes("clk/2", 8)) = 4

(***************************************************************************)
(* C5.  A tick gives the same arena and the same probe lines whatever the  *)
(* order in which phase 1 visits the gates and whatever the order in which *)
(* phase 2 visits them.  Every pair of orders is tried on an arena of at   *)
(* most MaxPermGates gates; the arena order and its reverse on a larger.   *)
(***************************************************************************)
Perms(n) == {p \in [1..n -> 1..n] : \A i, j \in 1..n : p[i] = p[j] => i = j}

Reverse(n) == [i \in 1..n |-> n + 1 - i]

Orders(n) == IF n <= MaxPermGates THEN Perms(n) ELSE {[i \in 1..n |-> i], Reverse(n)}

Lines(o) == {o[n] : n \in DOMAIN o}

\* the arena and the lines of std::cout a run of tick leaves
Outcome(r) == [err |-> r.err, gates |-> r.gates, lines |-> Lines(r.out)]

C5_OrderIndependent ==
    LET start == [gates |-> gates, out |-> out, err |-> "none", at |-> 0]
        code == tick(gates, out) IN
    (err = "none" /\ Ok(code)) =>
       \A o1 \in Orders(Len(gates)) :
          LET sampled == Phase1(o1, 1, start) IN
          \A o2 \in Orders(Len(gates)) :
             Outcome(Phase2(o2, 1, sampled)) = Outcome(code)

\* a register about to change feeds another register, in an arena small enough
\* for every order to be tried
C5_Witness ==
    /\ err = "none" /\ Ok(tick(gates, out))
    /\ Len(gates) <= MaxPermGates
    /\ \E r1, r2 \in Registers(gates) :
          /\ r1 # r2 /\ gates[r2].inputs[1] = r1
          /\ gates[r1].value # Read(gates[r1].inputs[1]).v

(***************************************************************************)
(* C6.  Once a composite is instantiated its symbol table binds every      *)
(* output net of every placement, and once it is linked every placement    *)
(* input that names the output net of a placement, declared earlier or     *)
(* later, is wired to the gate that output stands for.                     *)
(***************************************************************************)
C6_SymbolTable ==
    err = "none" =>
      \A cid \in Composites :
         /\ \A k \in DOMAIN protos[circuits[cid].parent].commands :
               \A i \in DOMAIN Placement(cid, k).outputs :
                  Bound(circuits[cid].everything, Placement(cid, k).outputs[i])
         /\ circuits[cid].state = "Linked" =>
              \A k, m \in DOMAIN circuits[cid].circuits :
                 \A j \in DOMAIN Placement(cid, k).inputs :
                    \A i \in DOMAIN Placement(cid, m).outputs :
                       Placement(cid, k).inputs[j] = Placement(cid, m).outputs[i] =>
                          Wired(cid, k, j, ChildOutput(cid, m, i))

\* a linked composite whose k-th placement, a primitive gate, reads the output
\* net of a later placement
C6_Witness ==
    /\ err = "none"
    /\ \E cid \in Composites :
          /\ circuits[cid].state = "Linked"
          /\ \E k, m \in DOMAIN circuits[cid].circuits :
                /\ k < m
                /\ circuits[circuits[cid].circuits[k]].kind = "gate"
                /\ \E j \in DOMAIN Placement(cid, k).inputs :
                      /\ Placement(cid, k).inputs[j] = Placement(cid, m).outputs[1]
                      /\ gates[circuits[circuits[cid].circuits[k]].c].inputs[j]
                            = ChildOutput(cid, m, 1)
                      /\ ChildOutput(cid, m, 1) # 0

(***************************************************************************)
(* C7.  A link call whose handle list has not the length the prototype     *)
(* declares fails, and no gate of the arena has changed when it does.      *)
(***************************************************************************)
\* the input arity the prototype of circuit cid declares
Arity(cid) == protos[circuits[cid].parent].numInputs

C7_ArityChecked ==
    [][\A args \in SeqsUpTo(Handles, MaxArgs) :
          (err' # "none" /\ gates' = gates)
             \/ ~(top # 0 /\ Len(args) # Arity(top) /\ Link(args))]_vars

\* a link of a circuit of two inputs has failed on its handle list, and every
\* input slot of the arena is as instantiate left it
C7_Witness ==
    /\ err = "assert:args_size" /\ top # 0
    /\ Arity(top) = 2
    /\ \A g \in DOMAIN gates : \A i \in DOMAIN gates[g].inputs : gates[g].inputs[i] = 0

(***************************************************************************)
(* C8.  As the spec states it: link does not return on a composite one of  *)
(* whose placements reads a net name that is neither an input port of the  *)
(* composite nor an output net of one of its placements.                   *)
(***************************************************************************)
\* the net names of the scope of circuit cid
InScope(cid, name) ==
    \/ \E i \in DOMAIN protos[circuits[cid].parent].outer_input_ids :
          protos[circuits[cid].parent].outer_input_ids[i] = name
    \/ Declares(circuits[cid].parent, name)

C8_AsStated ==
    err = "none" =>
      \A cid \in Composites :
         circuits[cid].state = "Linked" =>
            \A k \in DOMAIN circuits[cid].circuits :
               \A j \in DOMAIN Placement(cid, k).inputs :
                  InScope(cid, Placement(cid, k).inputs[j])

(***************************************************************************)
(* C9.  As the spec states it: a link call on a circuit on which a link    *)
(* call has returned fails and rewires no gate.                            *)
(***************************************************************************)
C9_AsStated ==
    [][\A args \in SeqsUpTo(Handles, MaxArgs) :
          (Link(args) /\ top \in linkedOnce) => (err' # "none" /\ gates' = gates)]_vars

(***************************************************************************)
(* C10.  Instantiating a composite two of whose placement outputs (of two  *)
(* placements or of one) have the same net name fails and returns no       *)
(* circuit.                                                                *)
(***************************************************************************)
\* the outputs of the placements of prototype p, as <<placement, output>>
Outputs(p) ==
    {<<k, i>> \in (DOMAIN protos[p].commands) \X (1..2) :
        i \in DOMAIN protos[p].commands[k].outputs}

Duplicate(p) ==
    \E a, b \in Outputs(p) :
       /\ a # b
       /\ protos[p].commands[a[1]].outputs[a[2]] = protos[p].commands[b[1]].outputs[b[2]]

C10_DuplicateOutput ==
    [][\A p \in DOMAIN protos :
          (err' # "none" /\ top' = 0) \/ ~(Duplicate(p) /\ Instantiate(p))]_vars

\* the composite of the client declares a net twice, and its instantiation failed
C10_Witness ==
    /\ err = "assert:duplicate_output"
    /\ Len(protos) = User /\ Duplicate(User)
    /\ top = 0

(***************************************************************************)
(* C11.  A composite child that is not Finalized cannot be added as a      *)
(* placement; addPrototype and finalize fail on a Finalized prototype and  *)
(* leave every prototype as it was; so every composite that is a placement *)
(* of a composite is Finalized, and no step changes its placement list.    *)
(***************************************************************************)
\* prototype p is a placement of a composite
IsEmbedded(p) ==
    \E q \in DOMAIN protos :
       \E k \in DOMAIN protos[q].commands : protos[q].commands[k].proto = p

\* the call fails and no prototype has changed
Rejected == err' # "none" /\ protos' = protos

\* the composites that are placements of a composite
EmbeddedComposites == {p \in DOMAIN protos : protos[p].kind = "composite" /\ IsEmbedded(p)}

\* every composite that is a placement is Finalized; a step that is not a
\* rejected call is no addPrototype or finalize call on a Finalized prototype
\* and no addPrototype call with a child not Finalized; no step changes a
\* composite that is a placement
C11_FinalizedImmutable ==
    /\ [](\A p \in EmbeddedComposites : protos[p].state = "Finalized")
    /\ [][/\ \/ Rejected
              \/ \A self \in CompositeIds :
                    /\ protos[self].state = "Finalized" =>
                         /\ ~Finalize(self)
                         /\ \A cmd \in UserChildren \cup {User},
                               input_ids \in InputIds, output_ids \in OutputIds :
                               ~AddPrototype(self, cmd, input_ids, output_ids)
                    /\ \A cmd \in CompositeIds :
                          protos[cmd].kind = "composite" /\ protos[cmd].state # "Finalized" =>
                             \A input_ids \in InputIds, output_ids \in OutputIds :
                                ~AddPrototype(self, cmd, input_ids, output_ids)
           /\ \/ protos' = protos
              \/ \A p \in EmbeddedComposites : protos'[p] = protos[p]]_vars

\* the client placed a composite of main() in its own, which it has not
\* finalized yet, and then called addPrototype on the composite it placed
C11_Witness ==
    /\ err = "assert:addPrototype_state"
    /\ Len(protos) = User /\ protos[User].state = "Init"
    /\ \E p \in Embedded : protos[p].kind = "composite" /\ IsEmbedded(p)

(***************************************************************************)
(* The smoke tests of main(): a composite without inputs that feeds the    *)
(* prototype under test from constant sources, instantiated, linked and    *)
(* read.  main() feeds two low sources to the xor; here every input is a   *)
(* low source or the negation of one.                                      *)
(***************************************************************************)
\* the prototypes under test, and the values fed to their inputs
Suts == {xorPrototype, adderPrototype}
Bits == [1..3 -> BOOLEAN]

\* the placements that produce the net `name` with the constant value b
Source(name, b) ==
    IF b THEN <<ChildData(lowPrototype, <<>>, <<"low " \o name>>, ""),
                ChildData(notPrototype, <<"low " \o name>>, <<name>>, "")>>
    ELSE <<ChildData(lowPrototype, <<>>, <<name>>, "")>>

\* testProto of lines 387-391, for the prototype sut fed the values bits
TestProto(sut, bits) ==
    IF sut = xorPrototype
      THEN Define(Library, "test", <<>>, <<"out">>,
                  Source("in1", bits[1]) \o Source("in2", bits[2]) \o
                  <<ChildData(xorPrototype, <<"in1", "in2">>, <<"out">>, "")>>)
    ELSE Define(Library, "test", <<>>, <<"out", "carry">>,
                Source("in1", bits[1]) \o Source("in2", bits[2]) \o Source("in3", bits[3]) \o
                <<ChildData(adderPrototype, <<"in1", "in2", "in3">>, <<"out", "carry">>, "")>>)

\* a composite that hands its input port on as its output port, and a test
\* that places it after a low source
PassTest ==
    Define(Define(Library, "pass", <<"in">>, <<"in">>, <<>>),
           "test", <<>>, <<"out">>,
           <<ChildData(lowPrototype, <<>>, <<"low">>, ""),
             ChildData(User, <<"low">>, <<"out">>, "")>>)

InitTest ==
    /\ \/ \E sut \in Suts, bits \in Bits :
             /\ sut = xorPrototype => ~bits[3]
             /\ protos = TestProto(sut, bits)
       \/ protos = PassTest
    /\ gates = <<>>
    /\ circuits = <<>>
    /\ top = 0
    /\ err = "none"
    /\ ticks = 0
    /\ out = <<>>
    /\ linkedOnce = {}

\* auto test = testProto.instantiate(&heimdall); test->link(...); and ticks
NextTest ==
    \/ \E p \in DOMAIN protos : Instantiate(p)
    \/ \E args \in SeqsUpTo(Handles, MaxArgs) : Link(args)
    \/ Tick

SpecTest == InitTest /\ [][NextTest]_vars

\* the linked circuits that are instances of prototype p
Instances(p) ==
    {cid \in Composites : circuits[cid].parent = p /\ circuits[cid].state = "Linked"}

\* the value read through the handle circuit cid binds to the net `name`
Net(cid, name) == Read(circuits[cid].everything[name])

\* the value read through output i (counted from 0) of circuit cid
Output(cid, i) == Read(getOutput(protos, circuits, cid, i).g)

(***************************************************************************)
(* C12.  Whatever constant values its two inputs are fed, every linked xor *)
(* reads in1 XOR in2 through its output, before any tick and after; the    *)
(* test of main(), which feeds it two low sources, reads false.            *)
(***************************************************************************)
C12_Xor ==
    err = "none" =>
      /\ \A cid \in Instances(xorPrototype) :
            /\ Ok(Net(cid, "in1")) /\ Ok(Net(cid, "in2")) /\ Ok(Output(cid, 0))
            /\ Output(cid, 0).v = (Net(cid, "in1").v # Net(cid, "in2").v)
      /\ (Running(User) /\ protos[User] = TestProto(xorPrototype, [i \in 1..3 |-> FALSE])[User])
            => Output(top, 0) = Val(FALSE)

\* the test is linked and not ticked, in1 is high, in2 is low, the xor reads high
C12_Witness ==
    /\ Running(User) /\ ticks = 0
    /\ protos[User].numOutputs = 1
    /\ Net(top, "in1") = Val(TRUE) /\ Net(top, "in2") = Val(FALSE)
    /\ Output(top, 0) = Val(TRUE)

(***************************************************************************)
(* C13.  Whatever constant values its three inputs are fed, every linked   *)
(* adder reads through its first output the parity of the inputs and       *)
(* through its second whether two of them at least are high.               *)
(***************************************************************************)
\* how many of the values bs are high
RECURSIVE High(_)
High(bs) == IF bs = <<>> THEN 0 ELSE (IF Head(bs) THEN 1 ELSE 0) + High(Tail(bs))

C13_Adder ==
    err = "none" =>
      \A cid \in Instances(adderPrototype) :
         /\ \A n \in {"1", "2", "3"} : Ok(Net(cid, n))
         /\ Output(cid, 0) = Val(High(<<Net(cid, "1").v, Net(cid, "2").v, Net(cid, "3").v>>) % 2 = 1)
         /\ Output(cid, 1) = Val(High(<<Net(cid, "1").v, Net(cid, "2").v, Net(cid, "3").v>>) >= 2)

\* the test is linked, its three sources are high, the adder reads (high, high)
C13_Witness ==
    /\ Running(User)
    /\ protos[User].numOutputs = 2
    /\ \A n \in {"in1", "in2", "in3"} : Net(top, n) = Val(TRUE)
    /\ Output(top, 0) = Val(TRUE) /\ Output(top, 1) = Val(TRUE)

\* the same test with three low sources reads (low, low)
C13_WitnessLow ==
    /\ Running(User)
    /\ protos[User].numOutputs = 2
    /\ \A n \in {"in1", "in2", "in3"} : Net(top, n) = Val(FALSE)
    /\ Output(top, 0) = Val(FALSE) /\ Output(top, 1) = Val(FALSE)

(***************************************************************************)
(* C14.  Two placements of a composite, of one prototype or of two, stand  *)
(* on disjoint sets of arena gates; an input slot of a gate of a placement *)
(* holds null, a gate of the same placement, or a handle the composite     *)
(* resolved for an input net of the placement; a step that changes a       *)
(* prototype or a gate that existed is not an instantiate call.            *)
(***************************************************************************)
\* the arena gates circuit cid of cs stands on
RECURSIVE GatesOf(_, _)
GatesOf(cs, cid) ==
    IF cs[cid].kind = "gate" THEN {cs[cid].c}
    ELSE UNION {GatesOf(cs, cs[cid].circuits[k]) : k \in DOMAIN cs[cid].circuits}

\* the handles circuit cid hands to its k-th child at link
Given(cid, k) ==
    {circuits[cid].everything[n] :
        n \in {Placement(cid, k).inputs[j] : j \in DOMAIN Placement(cid, k).inputs}
                \cap DOMAIN circuits[cid].everything}

Independent ==
    \A cid \in Composites :
       LET on == [k \in DOMAIN circuits[cid].circuits |->
                    GatesOf(circuits, circuits[cid].circuits[k])] IN
       \A k \in DOMAIN on :
          /\ \A m \in DOMAIN on : m # k => on[k] \cap on[m] = {}
          /\ \A g \in on[k] : \A i \in DOMAIN gates[g].inputs :
                gates[g].inputs[i] \in on[k] \cup Given(cid, k) \cup {0}

C14_ReuseIndependent ==
    /\ []Independent
    /\ [][\/ /\ protos' = protos
             /\ \A g \in DOMAIN gates : g \in DOMAIN gates' /\ gates'[g] = gates[g]
          \/ \A p \in DOMAIN protos : ~Instantiate(p)]_vars

\* two placements of one composite prototype in a linked circuit, each with a
\* register, the two registers holding different values after some ticks
C14_Witness ==
    /\ err = "none" /\ ticks >= 1
    /\ \E cid \in Composites :
          /\ circuits[cid].state = "Linked"
          /\ \E k, m \in DOMAIN circuits[cid].circuits :
                /\ k # m
                /\ Placement(cid, k).proto = Placement(cid, m).proto
                /\ protos[Placement(cid, k).proto].kind = "composite"
                /\ \E r1 \in GatesOf(circuits, circuits[cid].circuits[k]) \cap Registers(gates),
                      r2 \in GatesOf(circuits, circuits[cid].circuits[m]) \cap Registers(gates) :
                      gates[r1].value # gates[r2].value

(***************************************************************************)
(* C15.  The composite of the client and the composite that has the same   *)
(* placements in another order: instantiate and link fail on both or on    *)
(* neither, and give the same arena up to the renaming of gates that maps  *)
(* the gates of a placement to the gates of the same placement; a tick     *)
(* keeps the two arenas the same up to that renaming; and each output port *)
(* stands for corresponding gates, which read the same value.              *)
(***************************************************************************)
Fresh == [gates |-> <<>>, circuits |-> <<>>, err |-> "none", ret |-> 0]

\* the prototypes, with the placements of the client's composite in order s
Reordered(s) ==
    [protos EXCEPT ![User].commands = [m \in DOMAIN s |-> protos[User].commands[s[m]]]]

\* the orders to compare with: two neighbours of the list exchanged (every
\* order of the list is reached by such exchanges, and the client assembles
\* each of them)
Reorderings ==
    {[m \in DOMAIN protos[User].commands |->
         IF m = k THEN k + 1 ELSE IF m = k + 1 THEN k ELSE m] :
       k \in 1..(Len(protos[User].commands) - 1)}

\* the first arena gate of circuit cid of cs: instantiate appends the gates of
\* a circuit to the arena one after the other
RECURSIVE FirstGate(_, _)
FirstGate(cs, cid) ==
    IF cs[cid].kind = "gate" THEN cs[cid].c ELSE FirstGate(cs, cs[cid].circuits[1])

\* the first gate of each child of circuit cid of cs
Starts(cs, cid) == [k \in DOMAIN cs[cid].circuits |-> FirstGate(cs, cs[cid].circuits[k])]

\* the gate that corresponds to gate g of top in the instance of Reordered(s)
\* whose children start at lo2, the children of top starting at lo1
Twin(s, lo1, lo2, g) ==
    IF g = 0 THEN 0
    ELSE LET m == CHOOSE m \in DOMAIN s :
                    /\ lo1[s[m]] <= g
                    /\ \A n \in DOMAIN s : lo1[s[n]] <= g => lo1[s[n]] <= lo1[s[m]] IN
         lo2[m] + g - lo1[s[m]]

\* the renaming of the gates of top for the instance b of Reordered(s)
Twins(s, b) ==
    LET lo1 == Starts(circuits, top)
        lo2 == Starts(b.circuits, b.ret) IN
    [g \in 0..Len(b.gates) |-> Twin(s, lo1, lo2, g)]

\* the arena gs of top, renamed by twin
Renamed(gs, twin) ==
    [h \in 1..Len(gs) |->
       LET g == CHOOSE g \in 1..Len(gs) : twin[g] = h IN
       [gs[g] EXCEPT !.inputs = [i \in DOMAIN gs[g].inputs |-> twin[gs[g].inputs[i]]]]]

\* top is an instance of the client's composite
Mine == top # 0 /\ circuits[top].parent = User

\* instantiate fails on both composites or on neither
SameInstantiate ==
    (err = "none" /\ top = 0 /\ Len(protos) = User /\ protos[User].state = "Finalized") =>
       \A s \in Reorderings :
          Ok(instantiate(Reordered(s), User, Fresh)) = Ok(instantiate(protos, User, Fresh))

\* link, on any handles, fails on both instances or on neither, and gives the
\* same arena up to the renaming, the output ports standing for the same gates
SameLink ==
    (err = "none" /\ Mine /\ circuits[top].state = "Init") =>
       \A s \in Reorderings :
          LET b == instantiate(Reordered(s), User, Fresh)
              twin == Twins(s, b) IN
          \A args \in SeqsUpTo(Handles, MaxArgs) :
             LET r1 == link(protos, top, args,
                            [gates |-> gates, circuits |-> circuits, err |-> "none", ret |-> 0])
                 r2 == link(Reordered(s), b.ret, [i \in DOMAIN args |-> twin[args[i]]], b) IN
             /\ Ok(r1) = Ok(r2)
             /\ Ok(r1) =>
                   /\ r2.gates = Renamed(r1.gates, twin)
                   /\ \A i \in 0..(protos[User].numOutputs - 1) :
                         LET o1 == getOutput(protos, r1.circuits, top, i)
                             o2 == getOutput(Reordered(s), r2.circuits, b.ret, i) IN
                         /\ o1.err = o2.err
                         /\ Ok(o1) => o2.g = twin[o1.g]

\* corresponding gates read the same, and a tick keeps the two arenas the same
\* up to the renaming
SameTick ==
    (err = "none" /\ Mine) =>
       \A s \in Reorderings :
          LET b == instantiate(Reordered(s), User, Fresh)
              twin == Twins(s, b)
              other == Renamed(gates, twin)
              r1 == tick(gates, <<>>)
              r2 == tick(other, <<>>) IN
          /\ Ok(b) /\ Len(b.gates) = Len(gates)
          /\ \A i \in 0..(protos[User].numOutputs - 1) :
                LET o == getOutput(protos, circuits, top, i) IN
                Ok(o) => getValue(twin[o.g], other, {}) = Read(o.g)
          /\ Ok(r1) = Ok(r2)
          /\ Ok(r1) => r2.gates = Renamed(r1.gates, twin)

C15_PlacementOrder == [](SameInstantiate /\ SameLink /\ SameTick)

\* the client's composite is a register placed before the clock that feeds it;
\* placed after the clock it reads the same: high after one tick of the clock
C15_Witness ==
    /\ Running(User) /\ ticks = 2
    /\ Len(protos[User].commands) = 2
    /\ protos[User].commands[1].proto = registerPrototype
    /\ protos[User].commands[2].proto = clkPrototype
    /\ Output(top, 0) = Val(TRUE)
    /\ LET s == <<2, 1>>
           b == instantiate(Reordered(s), User, Fresh)
           other == Renamed(gates, Twins(s, b)) IN
       /\ gates[1].type = "register" /\ gates[1].inputs = <<2>>
       /\ other[3].type = "register" /\ other[3].inputs = <<1>>
       /\ getValue(getOutput(Reordered(s), b.circuits, b.ret, 0).g, other, {}) = Val(TRUE)

(***************************************************************************)
(* C16.  As the spec states it: when link(args) returns on a composite     *)
(* circuit, every input of a primitive placement that names the i-th outer *)
(* input port is wired to args[i].                                         *)
(***************************************************************************)
\* the outer input ports of circuit cid that are named `name`
Ports(cid, name) ==
    {i \in DOMAIN protos[circuits[cid].parent].outer_input_ids :
        protos[circuits[cid].parent].outer_input_ids[i] = name}

C16_AsStated ==
    [][\A args \in SeqsUpTo(Handles, MaxArgs) :
          (top # 0 /\ circuits[top].kind = "composite" /\ Link(args) /\ err' = "none") =>
             \A k \in DOMAIN circuits[top].circuits :
                circuits[circuits[top].circuits[k]].kind = "gate" =>
                   \A j \in DOMAIN Placement(top, k).inputs :
                      \A i \in Ports(top, Placement(top, k).inputs[j]) :
                         gates'[circuits[circuits[top].circuits[k]].c].inputs[j] = args[i]]_vars

(***************************************************************************)
(* C17.  getOutput(i) on a composite circuit returns the handle its table  *)
(* binds to the i-th output port name when 0 <= i < numOutputs and the     *)
(* name is bound, and fails otherwise; on a primitive circuit it returns   *)
(* the wrapped gate for i = 0 and fails otherwise; instantiating a         *)
(* composite fails when a placement is a composite one of whose output     *)
(* port names none of its own placements declares, since the port is bound *)
(* only once that circuit is linked.                                       *)
(***************************************************************************)
\* the indices asked of circuit cid: one below and one above the valid ones
Indices(cid) == -1..protos[circuits[cid].parent].numOutputs

GetOutputContract(cid, i) ==
    LET C == circuits[cid]
        P == protos[C.parent]
        o == getOutput(protos, circuits, cid, i) IN
    IF C.kind = "gate"
      THEN IF i = 0 THEN Ok(o) /\ o.g = C.c ELSE ~Ok(o)
    ELSE IF i >= 0 /\ i < P.numOutputs /\ Bound(C.everything, P.outer_output_ids[i + 1])
      THEN Ok(o) /\ o.g = C.everything[P.outer_output_ids[i + 1]]
    ELSE ~Ok(o)

\* a placement of prototype p is a composite with an output port that none of
\* its placements declares
PortNotDeclared(p) ==
    \E k \in DOMAIN protos[p].commands :
       LET q == protos[p].commands[k].proto IN
       /\ protos[q].kind = "composite"
       /\ \E i \in DOMAIN protos[q].outer_output_ids :
             ~Declares(q, protos[q].outer_output_ids[i])

C17_GetOutput ==
    /\ [](\A cid \in DOMAIN circuits : \A i \in Indices(cid) : GetOutputContract(cid, i))
    /\ [][\A p \in DOMAIN protos :
             (err' # "none" /\ top' = 0) \/ ~(PortNotDeclared(p) /\ Instantiate(p))]_vars

\* the instantiation of the test failed when it asked the circuit of the
\* pass-through composite, not linked yet, for its output
C17_Witness ==
    /\ err = "assert:getOutput_unbound" /\ top = 0
    /\ \E cid \in Composites :
          /\ circuits[cid].state = "Init"
          /\ protos[circuits[cid].parent].outer_output_ids = <<"in">>
          /\ ~Bound(circuits[cid].everything, "in")
          /\ \A i \in Indices(cid) : GetOutputContract(cid, i)

(***************************************************************************)
(* C18.  A tick that completes appends to std::cout one line for each      *)
(* probe, in arena order: the line carries the label of the probe, its     *)
(* counter, which is the number of ticks made, this one included, and the  *)
(* value read through the input of the probe in the state the tick started *)
(* from, which is the one the tick before left.                            *)
(***************************************************************************)
\* the probes of the arena, in arena order from gate g on
RECURSIVE ProbesFrom(_)
ProbesFrom(g) ==
    IF g > Len(gates) THEN <<>>
    ELSE (IF gates[g].type = "tick - outputonly" THEN <<g>> ELSE <<>>) \o ProbesFrom(g + 1)

\* the line probe g is to write at the next tick
Line(g) ==
    [name |-> gates[g].name, t |-> ticks + 1,
     v |-> IF Read(gates[g].inputs[1]).v THEN "H" ELSE "L"]

C18_ProbeReports ==
    /\ [](err = "none" => \A g \in DOMAIN gates : gates[g].t \in {0, ticks})
    /\ [][(ticks' = ticks + 1 /\ err' = "none") =>
            LET ps == ProbesFrom(1) IN
            /\ out' = out \o [n \in DOMAIN ps |-> Line(ps[n])]
            /\ \A n \in DOMAIN ps : gates'[ps[n]].t = ticks']_vars

\* the probe of the clock of main() has written low at tick 1 and high at tick 2
C18_Witness ==
    /\ Running(testProto) /\ ticks = 2
    /\ \E n, m \in DOMAIN out :
          /\ n < m
          /\ out[n] = [name |-> "clk/1", t |-> 1, v |-> "L"]
          /\ out[m] = [name |-> "clk/1", t |-> 2, v |-> "H"]
    /\ Cardinality({n \in DOMAIN out : out[n].name = "clk/1"}) = 2

(***************************************************************************)
(* C19.  getValue returns when every cycle reachable from the gate passes  *)
(* through a register.  As stated, the claim adds that a reachable cycle   *)
(* of nand gates alone makes getValue recurse for ever.                    *)
(***************************************************************************)
\* every input slot of the arena holds a gate
FullyLinked == \A g \in DOMAIN gates : \A i \in DOMAIN gates[g].inputs : gates[g].inputs[i] # 0

\* a cycle of nand gates alone is reachable from g
NandCycle(g) == -1 \in Leaves(g, gates, {})

Overflows(g) == Read(g).err = "stack_overflow"

\* C19 as stated: in a fully linked graph getValue returns when no nand-only
\* cycle is reachable and never returns when one is
C19_AsStated ==
    (err = "none" /\ FullyLinked) => \A g \in DOMAIN gates : Overflows(g) <=> NandCycle(g)

\* following first inputs alone from g, a nand gate is met twice
RECURSIVE OnFirstCycle(_, _)
OnFirstCycle(g, path) ==
    IF g = 0 THEN FALSE
    ELSE IF g \in path THEN TRUE
    ELSE IF gates[g].type = "nand" THEN OnFirstCycle(gates[g].inputs[1], path \cup {g})
    ELSE FALSE

\* C19, amended: getValue returns when every reachable cycle passes through a
\* register; it recurses for ever on a nand-only cycle through first inputs;
\* a nand whose first input reads false returns true without evaluating its
\* second input, whatever is reachable through it; instantiate and link
\* evaluate no gate, so no step of theirs fails on a cycle.
C19_Cycles ==
    /\ [](err = "none" =>
            \A g \in DOMAIN gates :
               LET r == Read(g) IN
               /\ r.err = "stack_overflow" => NandCycle(g)
               /\ Ok(r) \/ Leaves(g, gates, {}) \cap {0, -1, -2} # {}
               /\ OnFirstCycle(g, {}) => r.err = "stack_overflow"
               /\ gates[g].type = "nand" =>
                    \/ r = Val(TRUE)
                    \/ LET a == getValue(gates[g].inputs[1], gates, {g}) IN
                       ~Ok(a) \/ a.v)
    /\ [][\/ err' # "stack_overflow"
          \/ err = "stack_overflow"
          \/ /\ \A p \in DOMAIN protos : ~Instantiate(p)
             /\ \A args \in SeqsUpTo(Handles, MaxArgs) : ~Link(args)]_vars

\* a linked circuit, nothing has failed, and a gate of it is on a nand-only
\* cycle through first inputs
C19_Witness ==
    /\ err = "none" /\ top # 0 /\ top \in linkedOnce /\ FullyLinked
    /\ \E g \in DOMAIN gates : OnFirstCycle(g, {}) /\ Overflows(g)

\* a linked circuit where a nand-only cycle is reachable from a gate whose
\* getValue returns
C19_WitnessShortCircuit ==
    /\ err = "none" /\ top # 0 /\ top \in linkedOnce /\ FullyLinked
    /\ \E g \in DOMAIN gates : NandCycle(g) /\ Ok(Read(g))

(***************************************************************************)
(* C20.  While every circuit the client has linked is a composite, no      *)
(* input slot of the arena holds a probe, and no step fails on the assert  *)
(* of TickOutputOnly::getValue.                                            *)
(***************************************************************************)
IsProbe(g) == g # 0 /\ gates[g].type = "tick - outputonly"

\* an input slot of the arena holds a probe
ProbeRead == \E g \in DOMAIN gates : \E i \in DOMAIN gates[g].inputs : IsProbe(gates[g].inputs[i])

\* the client has linked composite circuits only
OnlyComposites == \A cid \in linkedOnce : circuits[cid].kind = "composite"

C20_ProbeNeverRead ==
    OnlyComposites => (~ProbeRead /\ err # "assert:TickOutputOnly::getValue")

\* without the restriction to composites the same statement
C20_AnyCircuit == ~ProbeRead /\ err # "assert:TickOutputOnly::getValue"

\* a linked composite with probes has been ticked and its probes have written
C20_Witness ==
    /\ err = "none" /\ top # 0 /\ top \in linkedOnce /\ OnlyComposites
    /\ circuits[top].kind = "composite"
    /\ ticks >= 1 /\ Len(out) >= 1
    /\ \E g \in DOMAIN gates : IsProbe(g) /\ gates[g].inputs[1] # 0

====
